---- MODULE Spec2Model ----
(***************************************************************************)
(* Model of the Playwright MCP server's response-shaping helpers           *)
(* (src/tools/common/types.ts), its configuration module (src/config.ts),  *)
(* its startup logging (src/index.ts) and the browser-settings part of     *)
(* handleToolCall (src/toolHandler.ts, as quoted in the implementation     *)
(* notes).                                                                 *)
(*                                                                         *)
(* JavaScript strings are TLA+ strings (Len = .length, \o = +).  A call's  *)
(* optional arguments are fields that may be missing from the argument     *)
(* record, so "absent" is `"k" \notin DOMAIN a`.                           *)
(***************************************************************************)
EXTENDS Integers, Sequences, FiniteSets, TLC

VARIABLES
  tpc,      \* position of the response-helper harness: "idle" or "done"
  op,       \* which helper is called: "truncateText", "createErrorResponse", "createSuccessResponse"
  callArgs, \* the arguments of that call
  result,   \* what the call returned (a string or a ToolResponse)
  pc,       \* position of the server process: "start", "configured", "logged",
            \* "connecting", "serving", "exited"
  argv,     \* process.argv.slice(2)
  env,      \* process.env: a function from the names that are set to their values
  config,   \* the exports of src/config.ts once the module has been evaluated
  stderr,   \* the lines written by console.error, each the sequence of its code units
  browser,  \* the module-level browser of toolHandler.ts: [live |-> FALSE] or a launched browser
  context,  \* the ToolContext handed to the tool: which handles are set
  pending,  \* the tool calls in flight, each from its arrival in handleToolCall to its
            \* answer, in the order of arrival
  lastCall, \* the last tool call answered: its name, outcome and response
  launches, \* how many browser launches have been started; a launch's id is its rank
  exitCode, \* <<>> while the process runs, <<code>> once it has exited
  stdout    \* the lines written by console.log, each the sequence of its code units

textVars == <<tpc, op, callArgs, result>>
serverVars == <<pc, argv, env, config, stderr, browser, context, pending, lastCall, launches,
                exitCode, stdout>>

vars == <<tpc, op, callArgs, result, pc, argv, env, config, stderr, browser, context, pending,
          lastCall, launches, exitCode, stdout>>

----------------------------------------------------------------------------
(* Bounds of the explored inputs *)

\* texts have lengths 0..MaxSmallLen and MAX_RESPONSE_LENGTH -/+ MaxDelta
MaxSmallLen == 3
MaxDelta == 2
\* longest message list handed to createSuccessResponse
MaxParts == 2
\* longest command line (arguments after the script name)
MaxArgs == 3
\* most browser launches and most uncaught exceptions in one run
MaxLaunches == 2
MaxFaults == 1

\* maxLength values taken from the documented examples
LowerLimitExample == 5000
OverLimitExample == 50000
FarOverLimitExample == 100000

----------------------------------------------------------------------------
(* JavaScript string helpers *)

Min(a, b) == IF a <= b THEN a ELSE b
Max(a, b) == IF a >= b THEN a ELSE b

\* String.prototype.slice(start, end) for integer arguments
RelIndex(i, len) == IF i < 0 THEN Max(len + i, 0) ELSE Min(i, len)
slice(s, start, end) ==
  LET from == RelIndex(start, Len(s))
      to   == RelIndex(end, Len(s))
  IN  IF from >= to THEN "" ELSE SubSeq(s, from + 1, to)

\* n copies of s
RECURSIVE Repeat(_, _)
Repeat(s, n) ==
  IF n <= 0 THEN ""
  ELSE IF n % 2 = 1 THEN s \o Repeat(s, n - 1)
  ELSE LET h == Repeat(s, n \div 2) IN h \o h

\* Array.prototype.join(sep) on an array of strings
RECURSIVE join(_, _)
join(arr, sep) ==
  IF Len(arr) = 0 THEN ""
  ELSE IF Len(arr) = 1 THEN arr[1]
  ELSE join(SubSeq(arr, 1, Len(arr) - 1), sep) \o sep \o arr[Len(arr)]

----------------------------------------------------------------------------
(* Characters.  The texts given to the process (arguments, environment   *)
(* values) are TLA+ strings over the UTF-16 code units U+0001..U+007F.     *)
(* A string the program holds or writes (a string of a parsed JSON text, a *)
(* property name, a line of a log) is the sequence of its UTF-16 code      *)
(* units, each a number 0..65535, so that a \uXXXX escape gives one unit.  *)

Digits == {"0", "1", "2", "3", "4", "5", "6", "7", "8", "9"}

\* the character of s at 1-based position i, "" past the end
Ch(s, i) == IF i >= 1 /\ i <= Len(s) THEN SubSeq(s, i, i) ELSE ""

RECURSIVE SkipDigits(_, _)
SkipDigits(s, i) == IF Ch(s, i) \in Digits THEN SkipDigits(s, i + 1) ELSE i

\* the code units U+0001..U+001F, in order
ControlText == "\t\n\f\r"

\* the code units U+0001..U+007F, in order
AsciiText ==
  ControlText \o " !\"#$%&'()*+,-./0123456789:;<=>?@ABCDEFGHIJKLMNOPQRSTUVWXYZ[\\]^_"
  \o SubSeq("`'", 1, 1) \o "abcdefghijklmnopqrstuvwxyz{|}~"

ControlCharacters == {SubSeq(ControlText, i, i) : i \in 1..Len(ControlText)}

HexText == "0123456789abcdef"
HexDigits == {SubSeq(HexText, v, v) : v \in 1..16} \cup {"A", "B", "C", "D", "E", "F"}

\* the code unit of each character of AsciiText
CodeOf ==
  [c \in {SubSeq(AsciiText, n, n) : n \in 1..Len(AsciiText)} |->
     CHOOSE n \in 1..Len(AsciiText) : SubSeq(AsciiText, n, n) = c]

\* the code units of a text over U+0001..U+007F
Units(text) == [i \in 1..Len(text) |-> CodeOf[SubSeq(text, i, i)]]

\* the value 0..15 of a hex digit of either case
HexValue(c) ==
  CHOOSE v \in 0..15 : c \in {SubSeq(HexText, v + 1, v + 1), SubSeq("0123456789ABCDEF", v + 1, v + 1)}

\* the code unit named by the four hex digits h of a \uXXXX escape
UnicodeEscape(h) ==
  4096 * HexValue(Ch(h, 1)) + 256 * HexValue(Ch(h, 2))
    + 16 * HexValue(Ch(h, 3)) + HexValue(Ch(h, 4))

----------------------------------------------------------------------------
(* JavaScript numbers.  A number is an IEEE 754 double; the model holds it *)
(* as the text Number::toString gives it ("0" for both zeros, "Infinity"). *)
(* NumberToString reads a JSON number literal as JSON.parse does (to the   *)
(* nearest double, ties to even) and writes that double back as a template *)
(* literal does (the shortest digits that read back as the same double).   *)

\* the value of a decimal digit character, the character of a digit
DigitVal(c) == CHOOSE d \in 0..9 : SubSeq("0123456789", d + 1, d + 1) = c
DigitChar(d) == SubSeq("0123456789", d + 1, d + 1)

SetMin(S) == CHOOSE i \in S : \A j \in S : i <= j
SetMax(S) == CHOOSE i \in S : \A j \in S : i >= j

\* the text without its leading zeros / without its trailing zeros
StripLeadingZeros(s) ==
  LET nz == {i \in 1..Len(s) : SubSeq(s, i, i) /= "0"}
  IN  IF nz = {} THEN "" ELSE SubSeq(s, SetMin(nz), Len(s))
StripTrailingZeros(s) ==
  LET nz == {i \in 1..Len(s) : SubSeq(s, i, i) /= "0"}
  IN  IF nz = {} THEN "" ELSE SubSeq(s, 1, SetMax(nz))

\* the number written by at most 6 digits
RECURSIVE SmallNat(_)
SmallNat(s) ==
  IF Len(s) = 0 THEN 0
  ELSE 10 * SmallNat(SubSeq(s, 1, Len(s) - 1)) + DigitVal(SubSeq(s, Len(s), Len(s)))

(* Natural numbers of any size, for the arithmetic of IEEE 754 doubles: a  *)
(* sequence of limbs 0..9999, least significant first, no zero limb at the *)
(* top; <<>> is 0.                                                         *)

BTrim(a) ==
  LET nz == {i \in 1..Len(a) : a[i] /= 0}
  IN  IF nz = {} THEN <<>> ELSE SubSeq(a, 1, SetMax(nz))

BLimb(a, i) == IF i >= 1 /\ i <= Len(a) THEN a[i] ELSE 0

\* -1, 0, 1 as a < b, a = b, a > b, looking at the limbs 1..n only
BCmpLow(a, b, n) ==
  LET diff == {i \in 1..n : BLimb(a, i) /= BLimb(b, i)}
  IN  IF diff = {} THEN 0
      ELSE IF BLimb(a, SetMax(diff)) > BLimb(b, SetMax(diff)) THEN 1 ELSE 0 - 1

BCmp(a, b) == BCmpLow(a, b, Max(Len(a), Len(b)))

\* a - b, for a >= b: limb i borrows when the limbs below it of a are less
\* than those of b
BSub(a, b) ==
  BTrim([i \in 1..Len(a) |->
           (a[i] - BLimb(b, i) - (IF BCmpLow(a, b, i - 1) < 0 THEN 1 ELSE 0)) % 10000])

\* a + b: limb i receives a carry when the nearest limb below it whose sum
\* is not 9999 has a sum of 10000 or more
BAdd(a, b) ==
  LET n == Max(Len(a), Len(b)) + 1
      sum == [i \in 1..n |-> BLimb(a, i) + BLimb(b, i)]
      settled == [i \in 1..n |-> {j \in 1..(i - 1) : sum[j] /= 9999}]
      carry == [i \in 1..n |->
                  IF settled[i] /= {} /\ sum[SetMax(settled[i])] >= 10000 THEN 1 ELSE 0]
  IN  BTrim([i \in 1..n |-> (sum[i] + carry[i]) % 10000])

\* a * k, for 0 <= k <= 10000: the low halves of the limb products plus
\* their high halves one limb up
BMulSmall(a, k) ==
  BAdd(BTrim([i \in 1..Len(a) |-> (a[i] * k) % 10000]),
       BTrim([i \in 1..(Len(a) + 1) |-> IF i = 1 THEN 0 ELSE (a[i - 1] * k) \div 10000]))

\* a * 2^n
RECURSIVE BMulPow2(_, _)
BMulPow2(a, n) ==
  IF n <= 13 THEN BMulSmall(a, 2^n)
  ELSE LET half == BMulPow2(a, n \div 2)
       IN  IF Len(half) = 0 THEN half ELSE BMulPow2(half, n - (n \div 2))

\* a * 10^n
BMulPow10(a, n) ==
  IF Len(a) = 0 THEN a
  ELSE [i \in 1..(n \div 4) |-> 0] \o BMulSmall(a, 10^(n % 4))

BOne == << 1 >>

\* the number written by a string of decimal digits
BFromDigits(ds) ==
  BTrim([i \in 1..((Len(ds) + 3) \div 4) |->
           SmallNat(SubSeq(ds, Max(1, Len(ds) - 4 * i + 1), Len(ds) - 4 * (i - 1)))])

\* the number of decimal digits of a > 0
BDigits(a) == 4 * (Len(a) - 1) + Len(ToString(a[Len(a)]))

BIsEven(a) == Len(a) = 0 \/ a[1] % 2 = 0

\* floor(r / s) and the rest, for r < 10 * s: the quotient is the number of
\* multiples s, 2s, ..., 9s that r reaches
SmallQuotient(r, s) ==
  LET d == Cardinality({t \in 1..9 : BCmp(BMulSmall(s, t), r) <= 0})
  IN  [d |-> d, r |-> BSub(r, BMulSmall(s, d))]

\* the decimal digits, from 10^j down, of floor(r / b), and the rest, for
\* r < b * 10^(j+1)
RECURSIVE LongDivision(_, _, _)
LongDivision(r, b, j) ==
  IF j < 0 THEN [q |-> "", r |-> r]
  ELSE LET d == SmallQuotient(r, BMulPow10(b, j))
           rest == LongDivision(d.r, b, j - 1)
       IN  [q |-> DigitChar(d.d) \o rest.q, r |-> rest.r]

(* Decimal text to double (round to nearest, ties to even).  A double is   *)
(* [kind, f, e]: kind "zero", "inf" or "finite", and for a finite one the  *)
(* value f * 2^e with f < 2^53, e >= -1074.                                *)

DoubleZero == [kind |-> "zero", f |-> <<>>, e |-> 0]
DoubleInf == [kind |-> "inf", f |-> <<>>, e |-> 0]

\* n / m divided by 2^e, as a fraction a / b
ScaleBinary(n, m, e) ==
  [a |-> IF e < 0 THEN BMulPow2(n, 0 - e) ELSE n,
   b |-> IF e > 0 THEN BMulPow2(m, e) ELSE m]

\* whether 2^52 <= s.a / s.b < 2^53
InBinade(s) ==
  BCmp(s.a, BMulPow2(s.b, 52)) >= 0 /\ BCmp(s.a, BMulPow2(s.b, 53)) < 0

\* the exponent e with 2^52 <= (n / m) / 2^e < 2^53, for n / m between
\* 10^(d-1) and 10^d; not below -1074, the exponent of the subnormal doubles
BinaryExponent(n, m, d) ==
  LET guess == ((d * 3322) \div 1000) - 53
  IN  Max(0 - 1074,
          SetMin({e \in (guess - 5)..(guess + 2) : InBinade(ScaleBinary(n, m, e))}))

\* f0 rounded to nearest, ties to even: half is -1, 0 or 1 as the rest of
\* the division is less than, equal to or more than half the divisor
RoundHalfEven(f0, half) ==
  IF half > 0 \/ (half = 0 /\ ~BIsEven(f0)) THEN BAdd(f0, BOne) ELSE f0

\* the double f * 2^e, for f <= 2^53 and e <= 971: a significand rounded
\* up to 2^53 moves to the next exponent
NormalDouble(f, e) ==
  IF Len(f) = 0 THEN DoubleZero
  ELSE IF BCmp(f, BMulPow2(BOne, 53)) = 0
  THEN (IF e + 1 > 971 THEN DoubleInf
        ELSE [kind |-> "finite", f |-> BMulPow2(BOne, 52), e |-> e + 1])
  ELSE [kind |-> "finite", f |-> f, e |-> e]

\* the double at exponent e of the quotient q = [q, r] of a division by b
RoundedDouble(q, b, e) ==
  NormalDouble(RoundHalfEven(BFromDigits(StripLeadingZeros(q.q)),
                             BCmp(BMulSmall(q.r, 2), b)), e)

\* the double at exponent e0 of the fraction s = [a, b], scaled to lie
\* between 2^52 and 2^53
DoubleOfScaled(s, e0) == RoundedDouble(LongDivision(s.a, s.b, 15), s.b, e0)

\* the double nearest to n / m, whose exponent is e0
DoubleAtExponent(n, m, e0) ==
  IF e0 > 971 THEN DoubleInf ELSE DoubleOfScaled(ScaleBinary(n, m, e0), e0)

\* the double nearest to n / m, a fraction between 10^(d-1) and 10^d
DoubleOfFraction(n, m, d) == DoubleAtExponent(n, m, BinaryExponent(n, m, d))

\* the double nearest to digits * 10^exp10 (digits without leading zeros)
DecimalToDouble(digits, exp10) ==
  IF Len(digits) = 0 \/ Len(digits) + exp10 <= 0 - 324 THEN DoubleZero
  ELSE IF Len(digits) + exp10 > 310 THEN DoubleInf
  ELSE IF exp10 >= 0
  THEN DoubleOfFraction(BMulPow10(BFromDigits(digits), exp10), BOne, Len(digits) + exp10)
  ELSE DoubleOfFraction(BFromDigits(digits), BMulPow10(BOne, 0 - exp10),
                        Len(digits) + exp10)

(* Double to the shortest decimal text that reads back as the same double  *)
(* (Number::toString): digits d1..dn and a position k with value           *)
(* 0.d1...dn * 10^k.  r / s is the value, mp / s and mm / s the halves of  *)
(* the gaps to the next double above and below.                            *)

\* whether r + mp reaches s, the upper end of the rounding interval
ReachesHigh(r, s, mp, even) ==
  IF even THEN BCmp(BAdd(r, mp), s) >= 0 ELSE BCmp(BAdd(r, mp), s) > 0

\* r / s, mp / s and mm / s divided by 10^k
ScaleDecimal(r, s, mp, mm, k) ==
  [r |-> IF k < 0 THEN BMulPow10(r, 0 - k) ELSE r,
   s |-> IF k > 0 THEN BMulPow10(s, k) ELSE s,
   mp |-> IF k < 0 THEN BMulPow10(mp, 0 - k) ELSE mp,
   mm |-> IF k < 0 THEN BMulPow10(mm, 0 - k) ELSE mm,
   k |-> k]

\* the digits after the point of r / s, up to the first that leaves the
\* rest within the rounding interval
RECURSIVE GenerateDigits(_, _, _, _, _)
GenerateDigits(r, s, mp, mm, even) ==
  LET q == SmallQuotient(BMulSmall(r, 10), s)
      mp1 == BMulSmall(mp, 10)
      mm1 == BMulSmall(mm, 10)
      low == IF even THEN BCmp(q.r, mm1) <= 0 ELSE BCmp(q.r, mm1) < 0
      high == ReachesHigh(q.r, s, mp1, even)
  IN  IF ~low /\ ~high THEN DigitChar(q.d) \o GenerateDigits(q.r, s, mp1, mm1, even)
      ELSE IF low /\ ~high THEN DigitChar(q.d)
      ELSE IF ~low /\ high THEN DigitChar(q.d + 1)
      ELSE LET middle == BCmp(BMulSmall(q.r, 2), s)
           IN  IF middle < 0 \/ (middle = 0 /\ q.d % 2 = 0) THEN DigitChar(q.d)
               ELSE DigitChar(q.d + 1)

\* half the gap below the double f * 2^e, as a numerator over the
\* denominator of Margins
MarginBelow(e) == IF e >= 0 THEN BMulPow2(BOne, e) ELSE BOne

\* the double f * 2^e as r / s, with mp / s and mm / s the halves of the
\* gaps above and below it; at a boundary (f = 2^52 above the subnormals)
\* the gap below is half the gap above
Margins(f, e, boundary) ==
  [r |-> IF e >= 0
         THEN BMulPow2(f, e + (IF boundary THEN 2 ELSE 1))
         ELSE BMulSmall(f, IF boundary THEN 4 ELSE 2),
   s |-> IF e >= 0
         THEN (IF boundary THEN << 4 >> ELSE << 2 >>)
         ELSE BMulPow2(BOne, (IF boundary THEN 2 ELSE 1) - e),
   mp |-> IF boundary THEN BMulSmall(MarginBelow(e), 2) ELSE MarginBelow(e),
   mm |-> MarginBelow(e)]

\* whether the value with its upper margin, scaled as c, reaches 1
ReachesScaled(c, even) == ReachesHigh(c.r, c.s, c.mp, even)

\* the least position k, from guess on, whose power of ten the value with
\* its upper margin does not reach
DecimalPosition(m, guess, even) ==
  SetMin({k \in guess..(guess + 4) :
            ~ReachesScaled(ScaleDecimal(m.r, m.s, m.mp, m.mm, k), even)})

\* the digits of the value scaled as d, with its position
DigitsAt(d, even) == [digits |-> GenerateDigits(d.r, d.s, d.mp, d.mm, even), k |-> d.k]

\* the shortest digits of the value with margins m at position k
DigitsFrom(m, k, even) == DigitsAt(ScaleDecimal(m.r, m.s, m.mp, m.mm, k), even)

\* the shortest digits of the value with margins m
ShortestOf(m, guess, even) == DigitsFrom(m, DecimalPosition(m, guess, even), even)

\* the shortest digits of the finite double f * 2^e, as [digits, k]
ShortestDigits(f, e) ==
  ShortestOf(Margins(f, e, BCmp(f, BMulPow2(BOne, 52)) = 0 /\ e > 0 - 1074),
             (BDigits(f) - 1) + ((e * 30103) \div 100000),
             BIsEven(f))

\* Number::toString for digits d1..dn at position k
FormatNumber(digits, k) ==
  LET n == Len(digits)
      x == k - 1
  IN  IF n <= k /\ k <= 21 THEN digits \o Repeat("0", k - n)
      ELSE IF 0 < k /\ k <= 21
      THEN SubSeq(digits, 1, k) \o "." \o SubSeq(digits, k + 1, n)
      ELSE IF 0 - 6 < k /\ k <= 0 THEN "0." \o Repeat("0", 0 - k) \o digits
      ELSE SubSeq(digits, 1, 1)
           \o (IF n > 1 THEN "." \o SubSeq(digits, 2, n) ELSE "")
           \o "e" \o (IF x < 0 THEN "-" \o ToString(0 - x) ELSE "+" \o ToString(x))

\* the number written by the digits of an exponent; more than 6 digits
\* count as 1000000, far outside the range of doubles
ExponentAbs(ds) == IF Len(ds) > 6 THEN 1000000 ELSE SmallNat(ds)

\* the exponent of a number literal whose exponent part, if any, starts at
\* position i3
ExponentValue(lexeme, i3) ==
  IF Ch(lexeme, i3) \notin {"e", "E"} THEN 0
  ELSE IF Ch(lexeme, i3 + 1) = "-"
  THEN 0 - ExponentAbs(StripLeadingZeros(SubSeq(lexeme, i3 + 2, Len(lexeme))))
  ELSE IF Ch(lexeme, i3 + 1) = "+"
  THEN ExponentAbs(StripLeadingZeros(SubSeq(lexeme, i3 + 2, Len(lexeme))))
  ELSE ExponentAbs(StripLeadingZeros(SubSeq(lexeme, i3 + 1, Len(lexeme))))

\* the digits all (without leading zeros) times 10^exp, without their
\* trailing zeros
TrimmedDigits(neg, all, exp) ==
  [neg |-> neg, digits |-> StripTrailingZeros(all),
   exp10 |-> exp + (Len(all) - Len(StripTrailingZeros(all)))]

\* the parts of the literal with integer digits int, fraction digits frac
\* and exponent exp
ScaledDigits(neg, int, frac, exp) ==
  TrimmedDigits(neg, StripLeadingZeros(int \o frac), exp - Len(frac))

\* the parts of the literal whose integer digits are at i1..i2-1 and whose
\* fraction, if any, ends before i3
LiteralParts(lexeme, i1, i2, i3) ==
  ScaledDigits(i1 = 2, SubSeq(lexeme, i1, i2 - 1),
               IF i3 > i2 THEN SubSeq(lexeme, i2 + 1, i3 - 1) ELSE "",
               ExponentValue(lexeme, i3))

\* the parts of the literal whose integer digits are at i1..i2-1
FractionEnd(lexeme, i1, i2) ==
  LiteralParts(lexeme, i1, i2,
               IF Ch(lexeme, i2) = "." THEN SkipDigits(lexeme, i2 + 1) ELSE i2)

\* the parts of a number literal -?int(.frac)?([eE][+-]?exp)?: its sign,
\* its digits without leading and trailing zeros, and the power of ten the
\* digits are multiplied by
NumberParts(lexeme) ==
  IF Len(lexeme) > 0 /\ SubSeq(lexeme, 1, 1) = "-"
  THEN FractionEnd(lexeme, 2, SkipDigits(lexeme, 2))
  ELSE FractionEnd(lexeme, 1, SkipDigits(lexeme, 1))

\* Number::toString for the shortest digits sd = [digits, k]
FormatShortest(sd) == FormatNumber(sd.digits, sd.k)

\* Number::toString of the double x, with the sign of its literal
DoubleToString(x, sign) ==
  IF x.kind = "zero" THEN "0"
  ELSE IF x.kind = "inf" THEN sign \o "Infinity"
  ELSE sign \o FormatShortest(ShortestDigits(x.f, x.e))

\* the text of the number whose literal has the parts p.  A literal of at
\* most 15 significant digits in the range of the normal doubles is itself
\* the shortest text of its double (15 = DBL_DIG), so its own digits are
\* written; any other literal goes through the double.
PartsToString(p, sign) ==
  IF Len(p.digits) = 0 THEN "0"
  ELSE IF /\ Len(p.digits) <= 15
          /\ Len(p.digits) + p.exp10 > 0 - 300
          /\ Len(p.digits) + p.exp10 < 300
  THEN sign \o FormatNumber(p.digits, Len(p.digits) + p.exp10)
  ELSE DoubleToString(DecimalToDouble(p.digits, p.exp10), sign)

\* the text of the number a literal denotes: the literal is read as a
\* double and the double is written by Number::toString
NumberToString(lexeme) ==
  PartsToString(NumberParts(lexeme),
                IF Len(lexeme) > 0 /\ SubSeq(lexeme, 1, 1) = "-" THEN "-" ELSE "")

----------------------------------------------------------------------------
(* JavaScript values.  Every value is a record [t, s, f]: t is its type,   *)
(* s the code units of a scalar (those of a string, of the text of a       *)
(* number as Number::toString writes it, of true or false for a boolean), f *)
(* the elements of an array (a sequence) or the properties of an object (a *)
(* function from property names to values).                                *)

JSUndefined == [t |-> "undefined", s |-> <<>>, f |-> <<>>]
JSNull      == [t |-> "null", s |-> <<>>, f |-> <<>>]
JSBool(b)   == [t |-> "boolean", s |-> Units(IF b THEN "true" ELSE "false"), f |-> <<>>]
\* the number whose Number::toString text is text
JSNumber(text)   == [t |-> "number", s |-> Units(text), f |-> <<>>]
\* the string of the code units str
JSString(str)    == [t |-> "string", s |-> str, f |-> <<>>]
JSArray(elems)   == [t |-> "array", s |-> <<>>, f |-> elems]
\* the object whose properties, by the code units of their names, are props
JSObject(props)  == [t |-> "object", s |-> <<>>, f |-> props]

\* ToBoolean: the falsy values are undefined, null, false, 0, -0 and ""
\* (JSON.parse yields no NaN)
Truthy(v) ==
  CASE v.t = "undefined" -> FALSE
    [] v.t = "null"      -> FALSE
    [] v.t = "boolean"   -> v.s = Units("true")
    [] v.t = "number"    -> v.s /= Units("0")
    [] v.t = "string"    -> Len(v.s) /= 0
    [] OTHER             -> TRUE

\* a || b
JSOr(a, b) == IF Truthy(a) THEN a ELSE b

\* property read v.k for the names the program reads (server, bypass,
\* username, password): only objects have them
HasOwn(v, k) == v.t = "object" /\ Units(k) \in DOMAIN v.f
Get(v, k) == IF HasOwn(v, k) THEN v.f[Units(k)] ELSE JSUndefined

\* the object v with its property k replaced by x
WithProperty(v, k, x) ==
  JSObject([n \in DOMAIN v.f |-> IF n = Units(k) THEN x ELSE v.f[n]])

\* whether ToString(v), as a template literal applies it, throws a
\* TypeError: an object parsed from JSON whose own toString property hides
\* Object.prototype.toString has no callable toString or valueOf that
\* returns a primitive; Array.prototype.join converts each element that is
\* not null or undefined
RECURSIVE ToStringThrows(_)
ToStringThrows(v) ==
  CASE v.t = "object" -> Units("toString") \in DOMAIN v.f
    [] v.t = "array"  -> \E i \in 1..Len(v.f) :
                           v.f[i].t \notin {"null", "undefined"} /\ ToStringThrows(v.f[i])
    [] OTHER          -> FALSE

\* ToString(v) as a template literal applies it, for v with ~ToStringThrows(v)
RECURSIVE JSToString(_)
RECURSIVE JoinElems(_)
JoinElems(elems) ==
  IF Len(elems) = 0 THEN <<>>
  ELSE LET e == elems[Len(elems)]
           str == IF e.t \in {"null", "undefined"} THEN <<>> ELSE JSToString(e)
       IN  IF Len(elems) = 1 THEN str
           ELSE JoinElems(SubSeq(elems, 1, Len(elems) - 1)) \o Units(",") \o str
JSToString(v) ==
  CASE v.t = "undefined" -> Units("undefined")
    [] v.t = "null"      -> Units("null")
    [] v.t = "array"     -> JoinElems(v.f)
    [] v.t = "object"    -> Units("[object Object]")
    [] OTHER             -> v.s

----------------------------------------------------------------------------
(* JSON.parse, for JSON texts built from objects, arrays, strings (with    *)
(* the escapes \" \\ \/ \b \f \n \r \t \uXXXX), numbers, true, false and   *)
(* null, written in the characters U+0001..U+007F.  A parse step returns   *)
(* [ok, v, i]: whether it succeeded, the value, and the position after it. *)

ParseFail == [ok |-> FALSE, v |-> JSUndefined, i |-> 0]
ParseOk(v, i) == [ok |-> TRUE, v |-> v, i |-> i]

JSONWhitespace == {" ", "\t", "\n", "\r"}

RECURSIVE SkipWs(_, _)
SkipWs(s, i) == IF Ch(s, i) \in JSONWhitespace THEN SkipWs(s, i + 1) ELSE i

\* the characters of a string literal, from position i (after the opening
\* quote) on; acc is the code units read so far
RECURSIVE ParseStringRest(_, _, _)
ParseStringRest(s, i, acc) ==
  LET c == Ch(s, i)
      e == Ch(s, i + 1)
      hex == SubSeq(s, i + 2, Min(i + 5, Len(s)))
  IN  CASE c = "" -> ParseFail
        [] c = "\"" -> ParseOk(JSString(acc), i + 1)
        [] c \in ControlCharacters -> ParseFail
        [] c = "\\" ->
             (CASE e \in {"\"", "\\", "/"} -> ParseStringRest(s, i + 2, acc \o Units(e))
                [] e = "b" -> ParseStringRest(s, i + 2, Append(acc, 8))
                [] e = "f" -> ParseStringRest(s, i + 2, Append(acc, 12))
                [] e = "n" -> ParseStringRest(s, i + 2, Append(acc, 10))
                [] e = "r" -> ParseStringRest(s, i + 2, Append(acc, 13))
                [] e = "t" -> ParseStringRest(s, i + 2, Append(acc, 9))
                [] e = "u" ->
                     IF Len(hex) = 4 /\ \A k \in 1..4 : Ch(hex, k) \in HexDigits
                     THEN ParseStringRest(s, i + 6, Append(acc, UnicodeEscape(hex)))
                     ELSE ParseFail
                [] OTHER -> ParseFail)
        [] OTHER -> ParseStringRest(s, i + 1, acc \o Units(c))

\* -?(0|[1-9][0-9]*)(\.[0-9]+)?([eE][+-]?[0-9]+)?
ParseNumber(s, i) ==
  LET i1 == IF Ch(s, i) = "-" THEN i + 1 ELSE i
      i2 == IF Ch(s, i1) = "0" THEN i1 + 1 ELSE SkipDigits(s, i1)
      i3 == IF Ch(s, i2) = "." THEN SkipDigits(s, i2 + 1) ELSE i2
      fracOk == Ch(s, i2) /= "." \/ i3 > i2 + 1
      e1 == IF Ch(s, i3) \in {"e", "E"}
            THEN (IF Ch(s, i3 + 1) \in {"+", "-"} THEN i3 + 2 ELSE i3 + 1)
            ELSE i3
      i4 == IF Ch(s, i3) \in {"e", "E"} THEN SkipDigits(s, e1) ELSE i3
      expOk == Ch(s, i3) \notin {"e", "E"} \/ i4 > e1
  IN  IF i2 > i1 /\ fracOk /\ expOk
      THEN ParseOk(JSNumber(NumberToString(SubSeq(s, i, i4 - 1))), i4)
      ELSE ParseFail

RECURSIVE ParseValue(_, _)
RECURSIVE ParseElements(_, _, _)
RECURSIVE ParseMembers(_, _, _)

\* the elements of an array after "[" or ",": a value, then "," or "]"
ParseElements(s, i, acc) ==
  LET r == ParseValue(s, i)
      j == SkipWs(s, r.i)
  IN  IF ~r.ok THEN ParseFail
      ELSE IF Ch(s, j) = "," THEN ParseElements(s, j + 1, Append(acc, r.v))
      ELSE IF Ch(s, j) = "]" THEN ParseOk(JSArray(Append(acc, r.v)), j + 1)
      ELSE ParseFail

\* the members of an object after "{" or ",": "key" : value, then "," or "}";
\* a repeated key keeps its last value
ParseMembers(s, i, acc) ==
  LET k0 == SkipWs(s, i)
      k == IF Ch(s, k0) = "\"" THEN ParseStringRest(s, k0 + 1, <<>>) ELSE ParseFail
      c == SkipWs(s, k.i)
      r == IF k.ok /\ Ch(s, c) = ":" THEN ParseValue(s, c + 1) ELSE ParseFail
      j == SkipWs(s, r.i)
      props == [n \in (DOMAIN acc) \cup {k.v.s} |-> IF n = k.v.s THEN r.v ELSE acc[n]]
  IN  IF ~r.ok THEN ParseFail
      ELSE IF Ch(s, j) = "," THEN ParseMembers(s, j + 1, props)
      ELSE IF Ch(s, j) = "}" THEN ParseOk(JSObject(props), j + 1)
      ELSE ParseFail

ParseValue(s, i0) ==
  LET i == SkipWs(s, i0)
      c == Ch(s, i)
  IN  CASE c = "{" ->
             (IF Ch(s, SkipWs(s, i + 1)) = "}"
              THEN ParseOk(JSObject(<<>>), SkipWs(s, i + 1) + 1)
              ELSE ParseMembers(s, i + 1, <<>>))
        [] c = "[" ->
             (IF Ch(s, SkipWs(s, i + 1)) = "]"
              THEN ParseOk(JSArray(<<>>), SkipWs(s, i + 1) + 1)
              ELSE ParseElements(s, i + 1, <<>>))
        [] c = "\"" -> ParseStringRest(s, i + 1, <<>>)
        [] c \in Digits \cup {"-"} -> ParseNumber(s, i)
        [] c = "t" -> IF SubSeq(s, i, Min(i + 3, Len(s))) = "true"
                      THEN ParseOk(JSBool(TRUE), i + 4) ELSE ParseFail
        [] c = "f" -> IF SubSeq(s, i, Min(i + 4, Len(s))) = "false"
                      THEN ParseOk(JSBool(FALSE), i + 5) ELSE ParseFail
        [] c = "n" -> IF SubSeq(s, i, Min(i + 3, Len(s))) = "null"
                      THEN ParseOk(JSNull, i + 4) ELSE ParseFail
        [] OTHER -> ParseFail

\* the outcome of JSON.parse(text) when the value r was read from its
\* start: only whitespace may follow the value
ParseOutcome(text, r) ==
  IF r.ok /\ SkipWs(text, r.i) > Len(text)
  THEN [threw |-> FALSE, v |-> r.v]
  ELSE [threw |-> TRUE, v |-> JSUndefined]

\* JSON.parse(text): [threw |-> TRUE] stands for the SyntaxError it throws
JSONParse(text) == ParseOutcome(text, ParseValue(text, 1))

----------------------------------------------------------------------------
(* src/tools/common/types.ts *)

MAX_RESPONSE_LENGTH == 20000

TruncationMarker == "\n[Output truncated due to size limits - exceeded 20000 characters]"

\* variant: reserves room for the marker inside the limit
truncateText_ReserveMarker(a) ==
  LET text == a.text
      maxLength == IF "maxLength" \in DOMAIN a THEN a.maxLength ELSE MAX_RESPONSE_LENGTH
      effectiveMaxLength == Min(maxLength, MAX_RESPONSE_LENGTH)
  IN  IF Len(text) <= effectiveMaxLength
      THEN text
      ELSE slice(text, 0, effectiveMaxLength - Len(TruncationMarker)) \o TruncationMarker

\* variant: the requested maxLength is used without the Math.min cap
truncateText_NoCap(a) ==
  LET text == a.text
      maxLength == IF "maxLength" \in DOMAIN a THEN a.maxLength ELSE MAX_RESPONSE_LENGTH
  IN  IF Len(text) <= maxLength
      THEN text
      ELSE slice(text, 0, maxLength) \o TruncationMarker

\* truncateText(text, maxLength = MAX_RESPONSE_LENGTH); a = [text |-> ...] or
\* [text |-> ..., maxLength |-> ...]
truncateText(a) ==
  LET text == a.text
      maxLength == IF "maxLength" \in DOMAIN a THEN a.maxLength ELSE MAX_RESPONSE_LENGTH
      effectiveMaxLength == Min(maxLength, MAX_RESPONSE_LENGTH)
  IN  IF Len(text) <= effectiveMaxLength
      THEN text
      ELSE slice(text, 0, effectiveMaxLength) \o TruncationMarker

\* variant: the message is passed on without truncation
createErrorResponse_Untruncated(message) ==
  [content |-> << [type |-> "text", text |-> message] >>,
   isError |-> TRUE]

createErrorResponse(message) ==
  [content |-> << [type |-> "text", text |-> truncateText([text |-> message])] >>,
   isError |-> TRUE]

\* variant: each part is truncated on its own and the parts are joined after
createSuccessResponse_TruncateEachPart(message) ==
  LET messages == IF message.array THEN message.items ELSE << message.str >>
      truncated == [i \in 1..Len(messages) |-> truncateText([text |-> messages[i]])]
  IN  [content |-> << [type |-> "text", text |-> join(truncated, "\n")] >>,
       isError |-> FALSE]

\* message is a string ([array |-> FALSE, str |-> s]) or an array of strings
\* ([array |-> TRUE, items |-> <<...>>])
createSuccessResponse(message) ==
  LET messages == IF message.array THEN message.items ELSE << message.str >>
      combinedText == join(messages, "\n")
  IN  [content |-> << [type |-> "text", text |-> truncateText([text |-> combinedText])] >>,
       isError |-> FALSE]

\* total length of the text payloads of a ToolResponse
RECURSIVE TextPayloadLength(_)
TextPayloadLength(content) ==
  IF Len(content) = 0 THEN 0
  ELSE (IF content[1].type = "text" THEN Len(content[1].text) ELSE 0)
       + TextPayloadLength(Tail(content))

----------------------------------------------------------------------------
(* src/config.ts *)

\* Array.prototype.includes
includes(args, x) == \E i \in 1..Len(args) : args[i] = x

\* Array.prototype.findIndex(arg => arg === x): 0-based, -1 when not found
findIndex(args, x) ==
  IF includes(args, x)
  THEN (CHOOSE i \in 1..Len(args) : args[i] = x /\ \A j \in 1..(i - 1) : args[j] /= x) - 1
  ELSE -1

\* process.env.NAME === value
EnvIs(e, name, value) == name \in DOMAIN e /\ e[name] = value

\* variant: the environment variable, when set, decides before the flag
GLOBAL_HEADLESS_MODE_EnvFirst(args, e) ==
  IF "PLAYWRIGHT_HEADLESS" \in DOMAIN e
  THEN e["PLAYWRIGHT_HEADLESS"] = "true"
  ELSE includes(args, "--headless")

GLOBAL_HEADLESS_MODE(args, e) ==
  includes(args, "--headless") \/ EnvIs(e, "PLAYWRIGHT_HEADLESS", "true")

CLI_HEADLESS_MODE(args) == includes(args, "--headless")

ENV_HEADLESS_MODE(e) == EnvIs(e, "PLAYWRIGHT_HEADLESS", "true")

proxyArgIndex(args) == findIndex(args, "--proxy")

\* proxyArgIndex !== -1 && args[proxyArgIndex + 1]: the argument after the
\* first --proxy exists and is not the empty string
HasProxyArg(args) ==
  /\ proxyArgIndex(args) /= -1
  /\ proxyArgIndex(args) + 2 <= Len(args)
  /\ args[proxyArgIndex(args) + 2] /= ""

ProxyArg(args) == args[proxyArgIndex(args) + 2]

\* does the try block around JSON.parse(args[proxyArgIndex + 1]) run and throw
CliProxyParseFails(args) == HasProxyArg(args) /\ JSONParse(ProxyArg(args)).threw

cliProxyConfig(args) ==
  IF HasProxyArg(args) /\ ~JSONParse(ProxyArg(args)).threw
  THEN JSONParse(ProxyArg(args)).v
  ELSE JSNull

\* if (process.env.PLAYWRIGHT_PROXY): set and not the empty string
HasProxyEnv(e) == "PLAYWRIGHT_PROXY" \in DOMAIN e /\ e["PLAYWRIGHT_PROXY"] /= ""

EnvProxyParseFails(e) == HasProxyEnv(e) /\ JSONParse(e["PLAYWRIGHT_PROXY"]).threw

envProxyConfig(e) ==
  IF HasProxyEnv(e) /\ ~JSONParse(e["PLAYWRIGHT_PROXY"]).threw
  THEN JSONParse(e["PLAYWRIGHT_PROXY"]).v
  ELSE JSNull

\* variant: the environment value is preferred to the --proxy value
GLOBAL_PROXY_CONFIG_EnvFirst(args, e) == JSOr(envProxyConfig(e), cliProxyConfig(args))

\* variant: a parse failure in either source leaves the proxy unset
GLOBAL_PROXY_CONFIG_FailClosed(args, e) ==
  IF CliProxyParseFails(args) \/ EnvProxyParseFails(e)
  THEN JSNull
  ELSE JSOr(cliProxyConfig(args), envProxyConfig(e))

GLOBAL_PROXY_CONFIG(args, e) == JSOr(cliProxyConfig(args), envProxyConfig(e))

CLI_PROXY_MODE(args) == Truthy(cliProxyConfig(args))

ENV_PROXY_MODE(args, e) == Truthy(envProxyConfig(e)) /\ ~Truthy(cliProxyConfig(args))

\* what the two catch blocks write; the text of the SyntaxError is left out
ConfigErrorLines(args, e) ==
  (IF CliProxyParseFails(args)
   THEN << Units("Failed to parse --proxy argument: SyntaxError") >> ELSE <<>>)
  \o (IF EnvProxyParseFails(e)
      THEN << Units("Failed to parse PLAYWRIGHT_PROXY: SyntaxError") >> ELSE <<>>)

\* the exports of the module
ConfigExports(args, e) ==
  [GLOBAL_HEADLESS_MODE |-> GLOBAL_HEADLESS_MODE(args, e),
   CLI_HEADLESS_MODE    |-> CLI_HEADLESS_MODE(args),
   ENV_HEADLESS_MODE    |-> ENV_HEADLESS_MODE(e),
   GLOBAL_PROXY_CONFIG  |-> GLOBAL_PROXY_CONFIG(args, e),
   CLI_PROXY_MODE       |-> CLI_PROXY_MODE(args),
   ENV_PROXY_MODE       |-> ENV_PROXY_MODE(args, e)]

----------------------------------------------------------------------------
(* src/index.ts: startup logging *)

HeadlessLogLine(cfg) ==
  LET source == IF cfg.CLI_HEADLESS_MODE THEN "--headless flag"
                ELSE "PLAYWRIGHT_HEADLESS environment variable"
  IN  Units("Playwright MCP Server starting in headless mode (" \o source \o ")")

\* variant: the credentials are printed with the server
ProxyLogLine_WithCredentials(cfg) ==
  LET source == IF cfg.CLI_PROXY_MODE THEN "--proxy flag"
                ELSE "PLAYWRIGHT_PROXY environment variable"
      authInfo == IF Truthy(Get(cfg.GLOBAL_PROXY_CONFIG, "username"))
                  THEN Units(" (") \o JSToString(Get(cfg.GLOBAL_PROXY_CONFIG, "username"))
                         \o Units(":")
                         \o JSToString(Get(cfg.GLOBAL_PROXY_CONFIG, "password")) \o Units(")")
                  ELSE <<>>
      bypassInfo == IF Truthy(Get(cfg.GLOBAL_PROXY_CONFIG, "bypass"))
                    THEN Units(" (bypass: ") \o JSToString(Get(cfg.GLOBAL_PROXY_CONFIG, "bypass"))
                           \o Units(")")
                    ELSE <<>>
  IN  Units("Playwright MCP Server starting with proxy: ")
        \o JSToString(Get(cfg.GLOBAL_PROXY_CONFIG, "server"))
        \o authInfo \o bypassInfo \o Units(" (" \o source \o ")")

ProxyLogLine(cfg) ==
  LET source == IF cfg.CLI_PROXY_MODE THEN "--proxy flag"
                ELSE "PLAYWRIGHT_PROXY environment variable"
      authInfo == IF Truthy(Get(cfg.GLOBAL_PROXY_CONFIG, "username"))
                  THEN Units(" (authenticated)") ELSE <<>>
      bypassInfo == IF Truthy(Get(cfg.GLOBAL_PROXY_CONFIG, "bypass"))
                    THEN Units(" (bypass: ") \o JSToString(Get(cfg.GLOBAL_PROXY_CONFIG, "bypass"))
                           \o Units(")")
                    ELSE <<>>
  IN  Units("Playwright MCP Server starting with proxy: ")
        \o JSToString(Get(cfg.GLOBAL_PROXY_CONFIG, "server"))
        \o authInfo \o bypassInfo \o Units(" (" \o source \o ")")

\* whether building the proxy line throws a TypeError: the template literals
\* of lines 19 and 20 convert bypass (when truthy) and server to strings
ProxyLogThrows(cfg) ==
  \/ /\ Truthy(Get(cfg.GLOBAL_PROXY_CONFIG, "bypass"))
     /\ ToStringThrows(Get(cfg.GLOBAL_PROXY_CONFIG, "bypass"))
  \/ ToStringThrows(Get(cfg.GLOBAL_PROXY_CONFIG, "server"))

\* whether the module body of index.ts throws before runServer is called
StartupThrows(cfg) == Truthy(cfg.GLOBAL_PROXY_CONFIG) /\ ProxyLogThrows(cfg)

\* the lines console.error has written when the logging is over; a proxy
\* line whose construction throws is not written
StartupLogLines(cfg) ==
  (IF cfg.GLOBAL_HEADLESS_MODE THEN << HeadlessLogLine(cfg) >> ELSE <<>>)
  \o (IF Truthy(cfg.GLOBAL_PROXY_CONFIG) /\ ~ProxyLogThrows(cfg)
      THEN << ProxyLogLine(cfg) >> ELSE <<>>)

----------------------------------------------------------------------------
(* src/toolHandler.ts: the browser settings of handleToolCall *)

\* variant: a per-call headless argument is preferred to the global mode
CallHeadless_PerCallFirst(cfg, args) ==
  IF Get(args, "headless").t /= "undefined"
  THEN Get(args, "headless")
  ELSE JSBool(cfg.GLOBAL_HEADLESS_MODE)

\* const headless = GLOBAL_HEADLESS_MODE || args.headless || false
CallHeadless(cfg, args) ==
  JSOr(JSOr(JSBool(cfg.GLOBAL_HEADLESS_MODE), Get(args, "headless")), JSBool(FALSE))

\* variant: a per-call proxy argument is preferred to the global proxy
CallProxyConfig_PerCallFirst(cfg, args) ==
  JSOr(JSOr(Get(args, "proxy"), cfg.GLOBAL_PROXY_CONFIG), JSUndefined)

\* const proxyConfig = GLOBAL_PROXY_CONFIG || args.proxy || undefined
CallProxyConfig(cfg, args) ==
  JSOr(JSOr(cfg.GLOBAL_PROXY_CONFIG, Get(args, "proxy")), JSUndefined)

\* the browserSettings object; the proxy property exists only when
\* proxyConfig is truthy
BrowserSettings(cfg, name, args) ==
  LET base == [viewport |-> [width |-> Get(args, "width"), height |-> Get(args, "height")],
               userAgent |-> IF name = "playwright_custom_user_agent"
                             THEN Get(args, "userAgent") ELSE JSUndefined,
               headless |-> CallHeadless(cfg, args),
               browserType |-> JSOr(Get(args, "browserType"), JSString(Units("chromium")))]
      proxyConfig == CallProxyConfig(cfg, args)
  IN  IF Truthy(proxyConfig)
      THEN [k \in (DOMAIN base) \cup {"proxy"} |-> IF k = "proxy" THEN proxyConfig ELSE base[k]]
      ELSE base

\* the options handed to browserInstance.launch
LaunchOptions(browserSettings) ==
  IF "proxy" \in DOMAIN browserSettings /\ Truthy(browserSettings.proxy)
  THEN [headless |-> browserSettings.headless, proxy |-> browserSettings.proxy]
  ELSE [headless |-> browserSettings.headless]

NoBrowser == [live |-> FALSE]

\* the browser tools of the registry
BROWSER_TOOLS == {"playwright_navigate", "playwright_click", "playwright_custom_user_agent"}

\* the tool that closes the browser
CloseTool == "playwright_close"
\* the names the server answers to
RegisteredTools == BROWSER_TOOLS \cup {CloseTool}

\* the ToolContext with no handle set
EmptyContext == [page |-> FALSE, browser |-> FALSE, apiContext |-> FALSE]

\* variant: ensureBrowser is called for every tool name
NeedsBrowser_Always(name) == TRUE

\* if (BROWSER_TOOLS.includes(name))
NeedsBrowser(name) == name \in BROWSER_TOOLS

\* the browser that browserInstance.launch gives for the settings of a call
LaunchedBrowser(browserSettings, id) ==
  [live |-> TRUE, id |-> id,
   browserType |-> browserSettings.browserType.s,
   launchOptions |-> LaunchOptions(browserSettings)]

\* variant: a launch is started whether or not a session is live
ensureBrowser_AlwaysLaunch(b) == "launching"

\* ensureBrowser(browserSettings) up to its first wait: with a live session
\* its page is returned and nothing is launched ("resolved"); with none (the
\* module's browser is assigned when a launch resolves, not before) a launch
\* is started and awaited ("launching")
ensureBrowser(b) == IF b.live THEN "resolved" ELSE "launching"

\* the call in flight.  stage is its position in handleToolCall: at
\* `await ensureBrowser(browserSettings)` with the launch it started under
\* way ("launching") or settled ("resolved" with a page, "rejected"); past
\* the BROWSER_TOOLS block, before the tool runs ("tool"); leaving with the
\* error ensureBrowser threw ("threw").  launch is the id of the launch the
\* call started, 0 when it started none; browserSettings is <<>> for a call
\* that skipped the block
WaitingCall(stage, name, args, browserSettings, launch) ==
  [stage |-> stage, name |-> name, args |-> args,
   browserSettings |-> browserSettings, launch |-> launch]

\* the ordering the dispatcher is to keep: calls are handled to completion
\* one at a time, the next one is handed to handleToolCall when none is in
\* flight
NoCallInFlight(calls) == Len(calls) = 0

\* a sequence without its i-th element
RemoveAt(seq, i) == SubSeq(seq, 1, i - 1) \o SubSeq(seq, i + 1, Len(seq))

\* variant: the handles are stored whether or not ensureBrowser threw
ContextAfterEnsure_Always(ctx, threw, b) ==
  [ctx EXCEPT !.page = TRUE, !.browser = TRUE]

\* context.page = await ensureBrowser(browserSettings); context.browser = browser;
\* neither assignment runs when ensureBrowser throws; the second reads the
\* module's browser as it is when the call resumes
ContextAfterEnsure(ctx, threw, b) ==
  IF threw THEN ctx ELSE [ctx EXCEPT !.page = TRUE, !.browser = b.live]

\* closeSession(): both browser handles are released
closeSession(ctx) == [ctx EXCEPT !.page = FALSE, !.browser = FALSE]

\* variant: a name that is not registered is answered like a tool's result
ToolOutcome_UnknownOk(call) ==
  IF call.stage = "threw" THEN "LaunchFailure" ELSE "ok"

\* variant: the error ensureBrowser threw is dropped and the tool runs
ToolOutcome_ThrowDropped(call) ==
  IF call.name \in RegisteredTools THEN "ok" ELSE "UnknownTool"

\* how a call ends: with the error ensureBrowser threw ("LaunchFailure"),
\* with "UnknownTool" for a name that is not registered, else with the
\* result of its tool ("ok")
ToolOutcome(call) ==
  IF call.stage = "threw" THEN "LaunchFailure"
  ELSE IF call.name \in RegisteredTools THEN "ok"
  ELSE "UnknownTool"

\* the response of a call by its outcome: "ok", or the error kind
\* ("UnknownTool", "LaunchFailure") as the message of an error response
DispatchResponse(outcome, name) ==
  IF outcome = "ok"
  THEN createSuccessResponse([array |-> FALSE, str |-> name])
  ELSE createErrorResponse(outcome \o ": " \o name)

\* what is recorded of an answered call; session is the id of the browser
\* that is live when the call is answered, 0 when none is
AnsweredCall(name, outcome, launched, b) ==
  [name |-> name,
   launched |-> launched,
   launchFailed |-> outcome = "LaunchFailure",
   session |-> IF b.live THEN b.id ELSE 0,
   response |-> DispatchResponse(outcome, name)]

----------------------------------------------------------------------------
(* src/index.ts: process exit and the handlers registered by runServer *)

\* what shutdown() writes
ShutdownLine == Units("Shutdown signal received")

\* process.exit(code): the 'exit' event is emitted once; when shutdown is
\* registered for it, it logs and calls process.exit(0), which sets the exit
\* code to 0 and ends the process at once
ProcessExit(code, exitListener) ==
  IF exitListener
  THEN [code |-> 0, out |-> << ShutdownLine >>]
  ELSE [code |-> code, out |-> <<>>]

\* shutdown(), as the handler of SIGINT and SIGTERM
shutdown(exitListener) ==
  [code |-> ProcessExit(0, exitListener).code,
   out |-> << ShutdownLine >> \o ProcessExit(0, exitListener).out]

\* what the uncaughtException listener and the catch of runServer() write;
\* the text of the error is left out
UncaughtExceptionLine == Units("Uncaught Exception: Error")
FatalErrorLine == Units("Fatal error in main(): Error")

\* how many times a line occurs in a log
RECURSIVE CountLines(_, _)
CountLines(log, line) ==
  IF Len(log) = 0 THEN 0
  ELSE (IF log[1] = line THEN 1 ELSE 0) + CountLines(Tail(log), line)

----------------------------------------------------------------------------
(* Inputs of the response helpers *)

Alphabet == "abcdefghijklmnopqrstuvwxyz0123456789"

\* the text of length n: the alphabet repeated, cut at n
TextOfLen(n) == SubSeq(Repeat(Alphabet, (n \div Len(Alphabet)) + 1), 1, n)

NearMax == (MAX_RESPONSE_LENGTH - MaxDelta)..(MAX_RESPONSE_LENGTH + MaxDelta)

TextLens ==
  (0..MaxSmallLen) \cup NearMax
  \cup {MAX_RESPONSE_LENGTH + Len(TruncationMarker) + 1, OverLimitExample + 1}

Texts == {TextOfLen(n) : n \in TextLens}

MaxLengths ==
  ((0 - MaxDelta)..MaxSmallLen) \cup NearMax
  \cup {0 - MAX_RESPONSE_LENGTH - 1, LowerLimitExample, OverLimitExample, FarOverLimitExample}

TruncateArgs ==
  {[text |-> t] : t \in Texts} \cup {[text |-> t, maxLength |-> n] : t \in Texts, n \in MaxLengths}

PartLens == {0, 1, MAX_RESPONSE_LENGTH - 1, MAX_RESPONSE_LENGTH}
Parts == {TextOfLen(n) : n \in PartLens}
PartLists == UNION {[1..k -> Parts] : k \in 0..MaxParts}

Messages ==
  {[array |-> FALSE, str |-> t] : t \in Texts} \cup {[array |-> TRUE, items |-> l] : l \in PartLists}

----------------------------------------------------------------------------
(* The response-helper harness: pick a call, run it *)

InitText ==
  /\ tpc = "idle"
  /\ \/ op = "truncateText" /\ callArgs \in TruncateArgs
     \/ op = "createErrorResponse" /\ callArgs \in Texts
     \/ op = "createSuccessResponse" /\ callArgs \in Messages
  /\ result = ""
  /\ pc = "off" /\ argv = <<>> /\ env = <<>> /\ config = <<>> /\ stderr = <<>>
  /\ browser = NoBrowser /\ context = EmptyContext
  /\ pending = <<>> /\ lastCall = <<>>
  /\ launches = 0 /\ exitCode = <<>> /\ stdout = <<>>

CallTruncateText ==
  /\ tpc = "idle" /\ op = "truncateText"
  /\ result' = truncateText(callArgs)
  /\ tpc' = "done"
  /\ UNCHANGED <<op, callArgs>>
  /\ UNCHANGED serverVars

CallCreateErrorResponse ==
  /\ tpc = "idle" /\ op = "createErrorResponse"
  /\ result' = createErrorResponse(callArgs)
  /\ tpc' = "done"
  /\ UNCHANGED <<op, callArgs>>
  /\ UNCHANGED serverVars

CallCreateSuccessResponse ==
  /\ tpc = "idle" /\ op = "createSuccessResponse"
  /\ result' = createSuccessResponse(callArgs)
  /\ tpc' = "done"
  /\ UNCHANGED <<op, callArgs>>
  /\ UNCHANGED serverVars

\* a second layer: the text truncateText returned is truncated again with
\* the same arguments
CallTruncateTextAgain ==
  /\ tpc = "done" /\ op = "truncateText"
  /\ result' = truncateText([callArgs EXCEPT !.text = result])
  /\ tpc' = "relayered"
  /\ UNCHANGED <<op, callArgs>>
  /\ UNCHANGED serverVars

\* the response layer: the text truncateText returned is the message of a
\* success or an error response
CallResponseOnTruncated ==
  /\ tpc = "done" /\ op = "truncateText"
  /\ \/ result' = createSuccessResponse([array |-> FALSE, str |-> result])
     \/ result' = createErrorResponse(result)
  /\ tpc' = "wrapped"
  /\ UNCHANGED <<op, callArgs>>
  /\ UNCHANGED serverVars

NextText ==
  \/ CallTruncateText
  \/ CallCreateErrorResponse
  \/ CallCreateSuccessResponse
  \/ CallTruncateTextAgain
  \/ CallResponseOnTruncated

SpecText == InitText /\ [][NextText]_vars

----------------------------------------------------------------------------
(* Inputs of the server process *)

\* the proxy values of the implementation notes
ProxyServerOnly == "{\"server\": \"http://premium.residential.proxyrack.net:10000\"}"
ProxyAuthenticated ==
  "{\"server\": \"http://proxy.com:8080\", \"username\": \"user\", \"password\": \"pass\"}"
ProxyWithBypass ==
  "{\"server\": \"http://proxy.com:8080\", \"bypass\": \"*.internal.com,localhost\"}"
\* not JSON: the property name is not quoted
ProxyMalformed == "{server: \"http://proxy.com:8080\"}"
\* JSON, but not of the documented format: no server property, a bare string
ProxyNoServer == "{\"bypass\": \"localhost\"}"
ProxyBareString == "\"http://proxy.com:8080\""
\* JSON whose server is an object with a toString property of its own
ProxyOwnToString == "{\"server\": {\"toString\": \"x\"}}"
\* JSON whose server is a number and whose bypass is an array; its string
\* holds the escape of U+00E9 and then the six characters of that escape
ProxyNumeric == "{\"server\": 1e3, \"bypass\": [1.0, null, \"\\u00e9\\\\u00e9\"]}"

ArgTokens == {"--headless", "--proxy", ProxyServerOnly, ProxyMalformed, "null"}
Argvs == UNION {[1..k -> ArgTokens] : k \in 0..MaxArgs}

EnvHeadlessValues == {"true", "false", "TRUE"}
EnvProxyValues ==
  {ProxyAuthenticated, ProxyWithBypass, ProxyMalformed, ProxyNoServer, ProxyBareString,
   ProxyOwnToString, ProxyNumeric, "0", "1e-400", ""}

Envs ==
  {<<>>}
  \cup {[n \in {"PLAYWRIGHT_HEADLESS"} |-> h] : h \in EnvHeadlessValues}
  \cup {[n \in {"PLAYWRIGHT_PROXY"} |-> p] : p \in EnvProxyValues}
  \cup {[n \in {"PLAYWRIGHT_HEADLESS", "PLAYWRIGHT_PROXY"} |->
           IF n = "PLAYWRIGHT_HEADLESS" THEN h ELSE p] :
         h \in EnvHeadlessValues, p \in EnvProxyValues}

\* the command lines and environments under which tool calls are explored:
\* nothing set; headless by the flag against the variable; a proxy by the
\* flag and another by the variable; a malformed flag with headless and a
\* proxy by the variables; a proxy whose startup line cannot be built
ServerStarts ==
  {<< <<>>, <<>> >>,
   << <<"--headless">>, [n \in {"PLAYWRIGHT_HEADLESS"} |-> "false"] >>,
   << <<"--proxy", ProxyServerOnly>>, [n \in {"PLAYWRIGHT_PROXY"} |-> ProxyAuthenticated] >>,
   << <<"--proxy", ProxyMalformed>>,
      [n \in {"PLAYWRIGHT_HEADLESS", "PLAYWRIGHT_PROXY"} |->
         IF n = "PLAYWRIGHT_HEADLESS" THEN "true" ELSE ProxyWithBypass] >>,
   << <<>>, [n \in {"PLAYWRIGHT_PROXY"} |-> ProxyOwnToString] >>}

\* the names that are called: tools of the BROWSER_TOOLS array,
\* playwright_close, and playwright_get, one of the disabled API tools
ToolNames ==
  {"playwright_navigate", "playwright_custom_user_agent", CloseTool, "playwright_get"}

\* the positions of the calls that are in flight at one time
InFlight == {1, 2}

\* the arguments of a tool call, as the JSON object of the request
NoArgs == JSONParse("{}").v
ProxyArgs ==
  JSONParse("{\"headless\": false, \"proxy\": {\"server\": \"http://proxy.com:8080\"}}").v
UserAgentArgs ==
  JSONParse("{\"browserType\": \"firefox\", \"headless\": true, \"width\": 1280, "
            \o "\"height\": 720, \"userAgent\": \"Mozilla/5.0\"}").v
ToolArgs == {NoArgs, ProxyArgs, UserAgentArgs}

\* the calls that are made: playwright_navigate with each argument object,
\* playwright_custom_user_agent without and with a user agent, and
\* playwright_close and playwright_get, which read no argument here, with
\* none
CallMade(name, args) ==
  \/ name = "playwright_navigate"
  \/ name = "playwright_custom_user_agent" /\ ~HasOwn(args, "proxy")
  \/ name \notin BROWSER_TOOLS /\ ~HasOwn(args, "headless")

----------------------------------------------------------------------------
(* The server process *)

\* the process before any module has run, for a command line and environment
ProcessStart(args, e) ==
  /\ pc = "start"
  /\ argv = args
  /\ env = e
  /\ config = <<>>
  /\ stderr = <<>>
  /\ browser = NoBrowser
  /\ context = EmptyContext
  /\ pending = <<>>
  /\ lastCall = <<>>
  /\ launches = 0
  /\ exitCode = <<>>
  /\ stdout = <<>>
  /\ tpc = "off" /\ op = "none" /\ callArgs = <<>> /\ result = ""

Init == \E start \in ServerStarts : ProcessStart(start[1], start[2])

\* startup only, over every command line and environment of the bounds
InitStartup == \E args \in Argvs, e \in Envs : ProcessStart(args, e)

\* import of ./config.js: the module body runs once
LoadConfig ==
  /\ pc = "start"
  /\ config' = ConfigExports(argv, env)
  /\ stderr' = stderr \o ConfigErrorLines(argv, env)
  /\ pc' = "configured"
  /\ UNCHANGED <<argv, env, browser, context, pending, lastCall, launches, exitCode, stdout>>
  /\ UNCHANGED textVars

\* "Log the configuration on startup".  A TypeError thrown while the proxy
\* line is built is not caught: no listener is registered yet, so the
\* process ends with status 1 and runServer is never called
LogStartup ==
  /\ pc = "configured"
  /\ stderr' = stderr \o StartupLogLines(config)
  /\ IF StartupThrows(config)
     THEN /\ pc' = "exited"
          /\ exitCode' = << ProcessExit(1, FALSE).code >>
     ELSE /\ pc' = "logged"
          /\ UNCHANGED exitCode
  /\ UNCHANGED <<argv, env, config, browser, context, pending, lastCall, launches, stdout>>
  /\ UNCHANGED textVars

\* runServer() up to `await server.connect(transport)`: the server is set
\* up and the handlers of SIGINT, SIGTERM, exit and uncaughtException are
\* registered.  An exception before the handlers are registered rejects
\* runServer(); runServer().catch logs it and calls process.exit(1)
RunServer ==
  /\ pc = "logged"
  /\ \E outcome \in {"registered", "setupFailed"} :
       IF outcome = "registered"
       THEN /\ pc' = "connecting"
            /\ UNCHANGED <<stderr, exitCode, stdout>>
       ELSE /\ stderr' = Append(stderr, FatalErrorLine)
            /\ stdout' = stdout \o ProcessExit(1, FALSE).out
            /\ exitCode' = << ProcessExit(1, FALSE).code >>
            /\ pc' = "exited"
  /\ UNCHANGED <<argv, env, config, browser, context, pending, lastCall, launches>>
  /\ UNCHANGED textVars

\* `await server.connect(transport)` settles: runServer() resolves and the
\* server takes calls, or it rejects and runServer().catch logs the error and
\* calls process.exit(1) with shutdown registered for the exit event
ServerConnect ==
  /\ pc = "connecting"
  /\ \E outcome \in {"connected", "connectFailed"} :
       IF outcome = "connected"
       THEN /\ pc' = "serving"
            /\ UNCHANGED <<stderr, exitCode, stdout>>
       ELSE /\ stderr' = Append(stderr, FatalErrorLine)
            /\ stdout' = stdout \o ProcessExit(1, TRUE).out
            /\ exitCode' = << ProcessExit(1, TRUE).code >>
            /\ pc' = "exited"
  /\ UNCHANGED <<argv, env, config, browser, context, pending, lastCall, launches>>
  /\ UNCHANGED textVars

\* handleToolCall(name, args) up to its first wait.  For a name in
\* BROWSER_TOOLS the settings are computed (with the proxy property of the
\* proxy version of the block) and ensureBrowser is entered, and the call
\* waits at `await ensureBrowser(browserSettings)`; for any other name the
\* block is skipped.  The function is async and holds no lock: it can be
\* invoked again while an earlier invocation is suspended at the await
HandleToolCall ==
  /\ pc = "serving"
  /\ Len(pending) < Cardinality(InFlight)
  /\ \E name \in ToolNames, args \in ToolArgs :
       /\ CallMade(name, args)
       /\ LET browserSettings == BrowserSettings(config, name, args)
              entry == ensureBrowser(browser)
          IN  IF NeedsBrowser(name)
              THEN /\ entry = "launching" => launches < MaxLaunches
                   /\ pending' = Append(pending,
                                    WaitingCall(entry, name, args, browserSettings,
                                                IF entry = "launching" THEN launches + 1 ELSE 0))
                   /\ launches' = IF entry = "launching" THEN launches + 1 ELSE launches
              ELSE /\ pending' = Append(pending, WaitingCall("tool", name, args, <<>>, 0))
                   /\ UNCHANGED launches
  /\ UNCHANGED <<pc, argv, env, config, stderr, browser, context, lastCall, exitCode, stdout>>
  /\ UNCHANGED textVars

\* the launch a call waits for settles: the launched browser becomes the
\* module's browser, or the launch throws and the module's browser stays as
\* it is
LaunchSettles ==
  /\ pc = "serving"
  /\ \E i \in DOMAIN pending, launchOk \in BOOLEAN :
       /\ pending[i].stage = "launching"
       /\ browser' = IF launchOk
                     THEN LaunchedBrowser(pending[i].browserSettings, pending[i].launch)
                     ELSE browser
       /\ pending' = [pending EXCEPT ![i] =
                        WaitingCall(IF launchOk THEN "resolved" ELSE "rejected",
                                    @.name, @.args, @.browserSettings, @.launch)]
  /\ UNCHANGED <<pc, argv, env, config, stderr, context, lastCall, launches, exitCode, stdout>>
  /\ UNCHANGED textVars

\* handleToolCall resumes after `await ensureBrowser(browserSettings)`: the
\* page and the browser are stored in the context and the call goes on to
\* its tool, or ensureBrowser threw and the call leaves the block with the
\* error, storing nothing
ResumeToolCall ==
  /\ pc = "serving"
  /\ \E i \in DOMAIN pending :
       LET threw == pending[i].stage = "rejected"
       IN  /\ pending[i].stage \in {"resolved", "rejected"}
           /\ context' = ContextAfterEnsure(context, threw, browser)
           /\ pending' = [pending EXCEPT ![i] =
                            WaitingCall(IF threw THEN "threw" ELSE "tool",
                                        @.name, @.args, @.browserSettings, @.launch)]
  /\ UNCHANGED <<pc, argv, env, config, stderr, browser, lastCall, launches, exitCode,
                 stdout>>
  /\ UNCHANGED textVars

\* the rest of the call: the tool of the name runs and its result is the
\* response (playwright_close releases the session); a name that is not
\* registered and an error thrown by ensureBrowser are answered with an
\* error response
ExecuteTool ==
  /\ pc = "serving"
  /\ \E i \in DOMAIN pending :
       LET call == pending[i]
           outcome == ToolOutcome(call)
           closes == outcome = "ok" /\ call.name = CloseTool
           after == IF closes THEN NoBrowser ELSE browser
       IN  /\ call.stage \in {"tool", "threw"}
           /\ browser' = after
           /\ context' = IF closes THEN closeSession(context) ELSE context
           /\ lastCall' = AnsweredCall(call.name, outcome,
                                       call.launch > 0 /\ outcome = "ok", after)
           /\ pending' = RemoveAt(pending, i)
  /\ UNCHANGED <<pc, argv, env, config, stderr, launches, exitCode, stdout>>
  /\ UNCHANGED textVars

\* whether runServer has registered its listeners and the process runs
Listening == pc \in {"connecting", "serving"}

\* SIGINT or SIGTERM once runServer has registered shutdown for them
Signal ==
  /\ Listening
  /\ \E sig \in {"SIGINT", "SIGTERM"} :
       /\ stdout' = stdout \o shutdown(TRUE).out
       /\ exitCode' = << shutdown(TRUE).code >>
       /\ pc' = "exited"
  /\ UNCHANGED <<argv, env, config, stderr, browser, context, pending, lastCall, launches>>
  /\ UNCHANGED textVars

\* the event loop runs empty: the connected transport has nothing left to
\* read and the program waits for nothing else (no tool call waits at an
\* await, no launched browser holds the loop).  The 'exit' event is emitted
\* as by process.exit(0), and shutdown runs once as its listener.
EventLoopEmpty ==
  /\ pc = "serving"
  /\ Len(pending) = 0
  /\ ~browser.live
  /\ stdout' = stdout \o ProcessExit(0, TRUE).out
  /\ exitCode' = << ProcessExit(0, TRUE).code >>
  /\ pc' = "exited"
  /\ UNCHANGED <<argv, env, config, stderr, browser, context, pending, lastCall, launches>>
  /\ UNCHANGED textVars

\* variant: the handler ends the process after logging
UncaughtException_Exits ==
  /\ Listening
  /\ CountLines(stderr, UncaughtExceptionLine) < MaxFaults
  /\ stderr' = Append(stderr, UncaughtExceptionLine)
  /\ stdout' = stdout \o ProcessExit(1, TRUE).out
  /\ exitCode' = << ProcessExit(1, TRUE).code >>
  /\ pc' = "exited"
  /\ UNCHANGED <<argv, env, config, browser, context, pending, lastCall, launches>>
  /\ UNCHANGED textVars

\* process.on('uncaughtException', ...): the error is logged, nothing else
UncaughtException ==
  /\ Listening
  /\ CountLines(stderr, UncaughtExceptionLine) < MaxFaults
  /\ stderr' = Append(stderr, UncaughtExceptionLine)
  /\ UNCHANGED <<pc, argv, env, config, browser, context, pending, lastCall, launches,
                 exitCode, stdout>>
  /\ UNCHANGED textVars

Next ==
  \/ LoadConfig
  \/ LogStartup
  \/ RunServer
  \/ ServerConnect
  \/ HandleToolCall
  \/ LaunchSettles
  \/ ResumeToolCall
  \/ ExecuteTool
  \/ Signal
  \/ EventLoopEmpty
  \/ UncaughtException

Spec == Init /\ [][Next]_vars

\* handleToolCall under the ordering guarantee of the dispatcher: a call is
\* handed over only when no other call is in flight
HandleToolCallSerial ==
  /\ NoCallInFlight(pending)
  /\ HandleToolCall

\* the server process with tool calls handled one at a time
NextSerial ==
  \/ LoadConfig
  \/ LogStartup
  \/ RunServer
  \/ ServerConnect
  \/ HandleToolCallSerial
  \/ LaunchSettles
  \/ ResumeToolCall
  \/ ExecuteTool
  \/ Signal
  \/ EventLoopEmpty
  \/ UncaughtException

SpecSerial == Init /\ [][NextSerial]_vars

NextStartup ==
  \/ LoadConfig
  \/ LogStartup

SpecStartup == InitStartup /\ [][NextStartup]_vars

----------------------------------------------------------------------------
(* Claims about the response helpers (checked under SpecText) *)

TruncateDone == tpc = "done" /\ op = "truncateText"
HasLimit == "maxLength" \in DOMAIN callArgs

\* C1: whatever the text and the requested maximum length (absent, 0,
\* negative, within 1..20000, far above 20000), the text truncateText returns
\* is never longer than 20000 characters.
C1_HardCap == TruncateDone => Len(result) <= MAX_RESPONSE_LENGTH

\* C2: every response built by createSuccessResponse or createErrorResponse
\* carries at most 20000 characters of text over all its content blocks.
C2_ResponseCap ==
  (tpc = "done" /\ op \in {"createErrorResponse", "createSuccessResponse"})
    => TextPayloadLength(result.content) <= MAX_RESPONSE_LENGTH

\* C3: for 0 <= L <= 20000 and a text longer than L, truncateText(text, L)
\* is L + Len(marker) characters long and starts with the first L characters
\* of the text.
C3_ExactTruncation ==
  (TruncateDone /\ HasLimit) =>
    LET L == callArgs.maxLength
    IN  (0 <= L /\ L <= MAX_RESPONSE_LENGTH /\ Len(callArgs.text) > L) =>
          /\ Len(result) = L + Len(TruncationMarker)
          /\ SubSeq(result, 1, L) = SubSeq(callArgs.text, 1, L)

C3_Witness ==
  /\ TruncateDone /\ HasLimit
  /\ callArgs.maxLength = MAX_RESPONSE_LENGTH - 1
  /\ Len(callArgs.text) = MAX_RESPONSE_LENGTH + 1
  /\ Len(result) = MAX_RESPONSE_LENGTH - 1 + Len(TruncationMarker)

\* C4: a requested limit L >= 20000 is capped: truncateText(text, L) returns
\* what truncateText(text, 20000) returns, which is what truncateText(text)
\* returns; no more than the first 20000 characters of the text are kept.
C4_CappedAtMax ==
  (TruncateDone /\ HasLimit /\ callArgs.maxLength >= MAX_RESPONSE_LENGTH) =>
    /\ result = truncateText([text |-> callArgs.text, maxLength |-> MAX_RESPONSE_LENGTH])
    /\ result = truncateText([text |-> callArgs.text])
    /\ \/ result = callArgs.text /\ Len(callArgs.text) <= MAX_RESPONSE_LENGTH
       \/ result = SubSeq(callArgs.text, 1, MAX_RESPONSE_LENGTH) \o TruncationMarker

C4_Witness ==
  /\ TruncateDone /\ HasLimit
  /\ callArgs.maxLength = FarOverLimitExample
  /\ Len(callArgs.text) = OverLimitExample + 1
  /\ Len(result) = MAX_RESPONSE_LENGTH + Len(TruncationMarker)

----------------------------------------------------------------------------
(* Claims about configuration resolution and startup logging (checked     *)
(* under SpecStartup)                                                      *)

Configured == pc \notin {"off", "start"}

HeadlessFlagGiven == \E i \in 1..Len(argv) : argv[i] = "--headless"
HeadlessEnvGiven == "PLAYWRIGHT_HEADLESS" \in DOMAIN env

\* C5: with --headless on the command line the resolved headless mode is on
\* whatever PLAYWRIGHT_HEADLESS holds; with only the variable it is on exactly
\* when the variable is the string "true"; with neither it is off (unset).
C5_HeadlessPrecedence ==
  Configured =>
    /\ HeadlessFlagGiven => config.GLOBAL_HEADLESS_MODE = TRUE
    /\ (~HeadlessFlagGiven /\ HeadlessEnvGiven) =>
         (config.GLOBAL_HEADLESS_MODE <=> env["PLAYWRIGHT_HEADLESS"] = "true")
    /\ (~HeadlessFlagGiven /\ ~HeadlessEnvGiven) => config.GLOBAL_HEADLESS_MODE = FALSE

C5_Witness ==
  /\ Configured
  /\ HeadlessFlagGiven
  /\ HeadlessEnvGiven /\ env["PLAYWRIGHT_HEADLESS"] = "false"
  /\ config.GLOBAL_HEADLESS_MODE = TRUE

ProxyFlagGiven == \E i \in 1..Len(argv) : argv[i] = "--proxy"
FirstProxyFlag == CHOOSE i \in 1..Len(argv) :
                    argv[i] = "--proxy" /\ \A j \in 1..(i - 1) : argv[j] /= "--proxy"
\* the text that follows the first --proxy, "" when nothing follows
ProxyFlagText ==
  IF ProxyFlagGiven /\ FirstProxyFlag < Len(argv) THEN argv[FirstProxyFlag + 1] ELSE ""
ProxyEnvText ==
  IF "PLAYWRIGHT_PROXY" \in DOMAIN env THEN env["PLAYWRIGHT_PROXY"] ELSE ""

\* a source is malformed when it holds text that is not JSON
ProxyFlagMalformed == ProxyFlagText /= "" /\ JSONParse(ProxyFlagText).threw
ProxyEnvMalformed == ProxyEnvText /= "" /\ JSONParse(ProxyEnvText).threw
\* a source is usable when it holds the JSON text of a truthy value
ProxyFlagUsable == ~JSONParse(ProxyFlagText).threw /\ Truthy(JSONParse(ProxyFlagText).v)
ProxyEnvUsable == ~JSONParse(ProxyEnvText).threw /\ Truthy(JSONParse(ProxyEnvText).v)
\* a source parses when it holds JSON text
ProxyEnvParses == ~JSONParse(ProxyEnvText).threw

\* C6 as stated: whenever --proxy is on the command line the resolved proxy
\* is never the PLAYWRIGHT_PROXY value; with only PLAYWRIGHT_PROXY it is the
\* environment value; with neither it is unset.
C6_CliAlwaysOverrides ==
  Configured =>
    /\ (ProxyFlagGiven /\ ProxyEnvUsable) =>
         config.GLOBAL_PROXY_CONFIG /= JSONParse(ProxyEnvText).v
    /\ (~ProxyFlagGiven /\ ProxyEnvUsable) =>
         config.GLOBAL_PROXY_CONFIG = JSONParse(ProxyEnvText).v
    /\ (~ProxyFlagGiven /\ ProxyEnvText = "") => config.GLOBAL_PROXY_CONFIG = JSNull

\* C6 (amended): when the text after the first --proxy is JSON for a truthy
\* value, the resolved proxy is that value and never the PLAYWRIGHT_PROXY
\* value; otherwise it is the value parsed from PLAYWRIGHT_PROXY when that
\* variable holds JSON text, and null (unset) when it does not.
C6_UsableCliOverrides ==
  Configured =>
    /\ ProxyFlagUsable => config.GLOBAL_PROXY_CONFIG = JSONParse(ProxyFlagText).v
    /\ (~ProxyFlagUsable /\ ProxyEnvParses) =>
         config.GLOBAL_PROXY_CONFIG = JSONParse(ProxyEnvText).v
    /\ (~ProxyFlagUsable /\ ~ProxyEnvParses) => config.GLOBAL_PROXY_CONFIG = JSNull

C6_Witness ==
  /\ Configured
  /\ ProxyFlagUsable /\ ProxyEnvUsable
  /\ JSONParse(ProxyFlagText).v /= JSONParse(ProxyEnvText).v
  /\ config.GLOBAL_PROXY_CONFIG = JSONParse(ProxyFlagText).v

FailureLogged(line) == \E i \in 1..Len(stderr) : stderr[i] = Units(line)

\* C7: a proxy source holding text that is not JSON counts as absent: the
\* failure is logged, configuration still completes, and the resolved proxy
\* is the other source's value when that one is usable and unset otherwise.
C7_MalformedIsAbsent ==
  Configured =>
    /\ ProxyFlagMalformed =>
         /\ FailureLogged("Failed to parse --proxy argument: SyntaxError")
         /\ config.CLI_PROXY_MODE = FALSE
         /\ ProxyEnvUsable => config.GLOBAL_PROXY_CONFIG = JSONParse(ProxyEnvText).v
         /\ ~ProxyEnvUsable => ~Truthy(config.GLOBAL_PROXY_CONFIG)
    /\ ProxyEnvMalformed =>
         /\ FailureLogged("Failed to parse PLAYWRIGHT_PROXY: SyntaxError")
         /\ config.ENV_PROXY_MODE = FALSE
         /\ ProxyFlagUsable => config.GLOBAL_PROXY_CONFIG = JSONParse(ProxyFlagText).v
         /\ ~ProxyFlagUsable => ~Truthy(config.GLOBAL_PROXY_CONFIG)

\* startup went on past the malformed value: with PLAYWRIGHT_PROXY malformed
\* and no --proxy, and with --proxy malformed and PLAYWRIGHT_PROXY usable
C7_Witness ==
  /\ pc = "logged"
  /\ \/ /\ ProxyEnvMalformed /\ ~ProxyFlagGiven
        /\ config.GLOBAL_PROXY_CONFIG = JSNull
     \/ /\ ProxyFlagMalformed /\ ProxyEnvUsable
        /\ config.GLOBAL_PROXY_CONFIG = JSONParse(ProxyEnvText).v

\* C8: for headless and for proxy, when the resolved value is enabled at most
\* one of the CLI and ENV provenance flags is true, and when both sources
\* enable the setting it is the CLI flag that is true.
C8_OneProvenance ==
  Configured =>
    /\ config.GLOBAL_HEADLESS_MODE =>
         /\ ~(config.CLI_HEADLESS_MODE /\ config.ENV_HEADLESS_MODE)
         /\ HeadlessFlagGiven => config.CLI_HEADLESS_MODE
    /\ Truthy(config.GLOBAL_PROXY_CONFIG) =>
         /\ ~(config.CLI_PROXY_MODE /\ config.ENV_PROXY_MODE)
         /\ (ProxyFlagUsable /\ ProxyEnvUsable) => config.CLI_PROXY_MODE

SecretVariants ==
  {JSString(Units("pass")), JSString(Units("hunter2")), JSString(Units("s3cret:@proxy"))}

ProxyLineLogged == pc = "logged" /\ Truthy(config.GLOBAL_PROXY_CONFIG)
LoggedProxyLine == stderr[Len(stderr)]

\* C9: the proxy line of the startup log does not depend on the credentials:
\* replacing the password, or a non-empty username by another non-empty one,
\* in the resolved proxy gives the very line that was logged.
C9_NoCredentialsInLog ==
  (ProxyLineLogged /\ config.GLOBAL_PROXY_CONFIG.t = "object") =>
    \A x \in SecretVariants :
      /\ HasOwn(config.GLOBAL_PROXY_CONFIG, "password") =>
           ProxyLogLine([config EXCEPT !.GLOBAL_PROXY_CONFIG = WithProperty(@, "password", x)])
             = LoggedProxyLine
      /\ Truthy(Get(config.GLOBAL_PROXY_CONFIG, "username")) =>
           ProxyLogLine([config EXCEPT !.GLOBAL_PROXY_CONFIG = WithProperty(@, "username", x)])
             = LoggedProxyLine

C9_Witness ==
  /\ ProxyLineLogged
  /\ Get(config.GLOBAL_PROXY_CONFIG, "password") = JSString(Units("pass"))
  /\ Get(config.GLOBAL_PROXY_CONFIG, "username") = JSString(Units("user"))
  /\ LoggedProxyLine = Units("Playwright MCP Server starting with proxy: http://proxy.com:8080 (authenticated) (PLAYWRIGHT_PROXY environment variable)")

----------------------------------------------------------------------------
(* Claims about browser sessions (checked under Spec) *)

\* the i-th waiting call launched the live browser and has not resumed yet
SessionCreated(i) ==
  /\ i \in DOMAIN pending
  /\ pending[i].stage = "resolved"
  /\ browser.live
  /\ browser.id = pending[i].launch

\* C10: a browser session is launched headless when the global headless mode
\* is on; otherwise with the call's headless argument when it has one;
\* otherwise visible.  With the global mode on, headless=false in the call
\* never gives a visible browser.
C10_HeadlessLaunchSetting ==
  \A i \in InFlight : SessionCreated(i) =>
    browser.launchOptions.headless =
      (IF config.GLOBAL_HEADLESS_MODE THEN JSBool(TRUE)
       ELSE IF HasOwn(pending[i].args, "headless") THEN Get(pending[i].args, "headless")
       ELSE JSBool(FALSE))

C10_Witness ==
  \E i \in InFlight :
    /\ SessionCreated(i)
    /\ config.GLOBAL_HEADLESS_MODE
    /\ Get(pending[i].args, "headless") = JSBool(FALSE)
    /\ browser.launchOptions.headless = JSBool(TRUE)

\* C11: a browser session is launched with the global proxy when one is set
\* (a proxy argument of the call is then not used), otherwise with the
\* call's proxy argument when it has one, otherwise without a proxy.
C11_ProxyLaunchSetting ==
  \A i \in InFlight : SessionCreated(i) =>
    IF Truthy(config.GLOBAL_PROXY_CONFIG)
    THEN /\ "proxy" \in DOMAIN browser.launchOptions
         /\ browser.launchOptions.proxy = config.GLOBAL_PROXY_CONFIG
    ELSE IF HasOwn(pending[i].args, "proxy")
    THEN /\ "proxy" \in DOMAIN browser.launchOptions
         /\ browser.launchOptions.proxy = Get(pending[i].args, "proxy")
    ELSE "proxy" \notin DOMAIN browser.launchOptions

C11_Witness ==
  \E i \in InFlight :
    /\ SessionCreated(i)
    /\ Truthy(config.GLOBAL_PROXY_CONFIG)
    /\ HasOwn(pending[i].args, "proxy")
    /\ Get(pending[i].args, "proxy") /= config.GLOBAL_PROXY_CONFIG
    /\ browser.launchOptions.proxy = config.GLOBAL_PROXY_CONFIG

\* a step in which a tool call is handed to handleToolCall
CallArrives == pc = "serving" /\ Len(pending') = Len(pending) + 1
\* the name of the call that arrives, and the stage in which it starts
ArrivalName == pending'[Len(pending')].name
ArrivalStage == pending'[Len(pending')].stage
\* a step in which a browser tool call arrives and enters ensureBrowser
BrowserCallArrives == CallArrives /\ ArrivalName \in BROWSER_TOOLS

\* a step that answers a tool call and changes the record of the last call
CallStep == pc = "serving" /\ lastCall' /= lastCall

\* the last answered call was a browser tool call that ran in a session
RanInSession(call) ==
  call /= <<>> /\ call.name \in BROWSER_TOOLS /\ call.response.isError = FALSE

\* C12: a browser tool call that arrives while a session is live launches
\* nothing; as long as such a call is in flight the browser, with the
\* settings it was launched with, stays as it is; of two browser tool calls
\* answered one after the other the second ran in the session of the first
\* and launched nothing; a browser tool call that follows playwright_close
\* starts the launch of a fresh session.
C12_SessionReuse ==
  [][ /\ (BrowserCallArrives /\ browser.live) =>
           (ArrivalStage = "resolved" /\ launches' = launches)
      /\ (\E i \in DOMAIN pending :
            pending[i].name \in BROWSER_TOOLS /\ pending[i].launch = 0) =>
           browser' = browser
      /\ (CallStep /\ RanInSession(lastCall) /\ lastCall'.name \in BROWSER_TOOLS) =>
           /\ RanInSession(lastCall')
           /\ lastCall'.session = lastCall.session
           /\ ~lastCall'.launched
      /\ (BrowserCallArrives /\ lastCall /= <<>> /\ lastCall.name = CloseTool) =>
           (ArrivalStage = "launching" /\ launches' = launches + 1) ]_vars

\* a browser tool call with launch settings of its own is about to run in
\* the session launched, with other settings, after a playwright_close
C12_Witness ==
  /\ pc = "serving"
  /\ \E i \in DOMAIN pending :
       /\ pending[i].name \in BROWSER_TOOLS
       /\ pending[i].stage = "tool"
       /\ pending[i].launch = 0
       /\ browser.live
       /\ browser.id = 2
       /\ LaunchOptions(pending[i].browserSettings) /= browser.launchOptions
       /\ RanInSession(lastCall)
       /\ lastCall.launched
       /\ lastCall.session = 2

\* C13: a call with a name that is not registered skips ensureBrowser; the
\* step in which it arrives and the step in which it is answered leave the
\* browser, the launch count and the page, browser and apiContext handles of
\* the context as they were; its answer is an error response.
C13_UnknownToolFrame ==
  [][ /\ (CallArrives /\ ArrivalName \notin RegisteredTools) =>
           /\ ArrivalStage = "tool"
           /\ pending'[Len(pending')].launch = 0
           /\ browser' = browser
           /\ context' = context
           /\ launches' = launches
      /\ (CallStep /\ lastCall'.name \notin RegisteredTools) =>
           /\ lastCall'.response.isError = TRUE
           /\ ~lastCall'.launched
           /\ browser' = browser
           /\ context' = context
           /\ launches' = launches ]_vars

\* a call with a name that is not registered was answered while a session
\* was live, and the session is still there
C13_Witness ==
  /\ pc = "serving"
  /\ lastCall /= <<>>
  /\ lastCall.name \notin RegisteredTools
  /\ lastCall.response.isError = TRUE
  /\ lastCall.session = 1
  /\ browser.live
  /\ context.page
  /\ context.browser

\* ensureBrowser threw in the call in flight
LaunchFailed(calls) == \E i \in DOMAIN calls : calls[i].stage \in {"rejected", "threw"}

\* C14: from the moment the launch of a browser tool call fails until the
\* call is answered, no browser is live and the context holds no page and no
\* browser handle; the call is answered as a launch failure, with an error
\* response; the browser tool call that arrives next starts a launch again.
C14_LaunchFailureLeavesNothing ==
  [][ /\ LaunchFailed(pending') =>
           (~browser'.live /\ ~context'.page /\ ~context'.browser)
      /\ (CallStep /\ LaunchFailed(pending)) => lastCall'.launchFailed
      /\ (CallStep /\ lastCall'.launchFailed) =>
           /\ lastCall'.response.isError = TRUE
           /\ ~browser'.live
           /\ ~context'.page
           /\ ~context'.browser
      /\ (BrowserCallArrives /\ lastCall /= <<>> /\ lastCall.launchFailed) =>
           (ArrivalStage = "launching" /\ launches' = launches + 1) ]_vars

\* a launch failed, the call was answered, and the next browser tool call
\* has started a second launch with the context still empty
C14_Witness ==
  /\ pc = "serving"
  /\ lastCall /= <<>>
  /\ lastCall.launchFailed
  /\ lastCall.response.isError = TRUE
  /\ \E i \in DOMAIN pending :
       /\ pending[i].name \in BROWSER_TOOLS
       /\ pending[i].stage = "launching"
       /\ pending[i].launch = 2
  /\ ~browser.live
  /\ ~context.page
  /\ ~context.browser

\* the process was ended by SIGINT or SIGTERM: shutdown ran as the handler
\* of the signal and again as the listener of 'exit'
ExitedBySignal ==
  /\ pc = "exited"
  /\ exitCode = << 0 >>
  /\ CountLines(stderr, FatalErrorLine) = 0
  /\ CountLines(stdout, ShutdownLine) = 2

\* C15: when the process has exited on a signal, the browser and the page
\* and browser handles of the context have been released.
C15_ShutdownReleasesSession ==
  ExitedBySignal => (~browser.live /\ ~context.page /\ ~context.browser)

\* how many uncaught exceptions the log holds
Faults(log) == CountLines(log, UncaughtExceptionLine)

\* C20: a step that logs an uncaught exception leaves the process running,
\* with no exit code; while the process runs with an uncaught exception in
\* its log, SIGINT or SIGTERM can still stop it.
C20_UncaughtExceptionSurvived ==
  [][ /\ Faults(stderr') > Faults(stderr) => (Listening' /\ pc' = pc /\ exitCode' = <<>>)
      /\ (Listening /\ Faults(stderr) > 0) => ENABLED Signal ]_vars

\* the process logged an uncaught exception, answered a tool call that
\* launched a browser, and was stopped by a signal
C20_Witness ==
  /\ pc = "exited"
  /\ Faults(stderr) > 0
  /\ CountLines(stderr, FatalErrorLine) = 0
  /\ CountLines(stdout, ShutdownLine) = 2
  /\ exitCode = << 0 >>
  /\ lastCall /= <<>>
  /\ lastCall.launched

\* the text a response must carry for a message text m: m itself up to
\* 20000 characters, otherwise its first 20000 characters and the marker
ExpectedText(m) ==
  IF Len(m) <= MAX_RESPONSE_LENGTH
  THEN m
  ELSE SubSeq(m, 1, MAX_RESPONSE_LENGTH) \o TruncationMarker

ResponseDone == tpc = "done" /\ op \in {"createErrorResponse", "createSuccessResponse"}

\* the message of the call when it is one string
SingleMessage == IF op = "createErrorResponse" THEN callArgs ELSE callArgs.str

\* C16: createErrorResponse returns isError = true, createSuccessResponse
\* isError = false; for a message of one string the response has exactly one
\* block, of type text, whose text is the truncation of the message.
C16_ResponseEnvelope ==
  ResponseDone =>
    /\ result.isError = (op = "createErrorResponse")
    /\ Len(result.content) = 1
    /\ result.content[1].type = "text"
    /\ (op = "createErrorResponse" \/ ~callArgs.array) =>
         result.content[1].text = ExpectedText(SingleMessage)

C16_Witness ==
  /\ ResponseDone
  /\ op = "createErrorResponse"
  /\ Len(callArgs) > MAX_RESPONSE_LENGTH
  /\ result.isError = TRUE
  /\ Len(result.content) = 1
  /\ Len(result.content[1].text) = MAX_RESPONSE_LENGTH + Len(TruncationMarker)

\* the parts in their order with one newline between neighbours
RECURSIVE PartsInOrder(_)
PartsInOrder(items) ==
  IF Len(items) = 0 THEN ""
  ELSE IF Len(items) = 1 THEN items[1]
  ELSE items[1] \o "\n" \o PartsInOrder(Tail(items))

\* C17: for a message of several parts the text of the response is the
\* truncation of the whole joined text: the parts in input order with exactly
\* one newline between neighbours.
C17_JoinThenTruncate ==
  (tpc = "done" /\ op = "createSuccessResponse" /\ callArgs.array) =>
    /\ Len(result.content) = 1
    /\ result.content[1].text = ExpectedText(PartsInOrder(callArgs.items))

\* two parts, neither above the limit, whose joined text is: the response
\* carries the first 20000 characters of the joined text and the marker
C17_Witness ==
  /\ tpc = "done" /\ op = "createSuccessResponse" /\ callArgs.array
  /\ Len(callArgs.items) = 2
  /\ Len(callArgs.items[1]) = MAX_RESPONSE_LENGTH - 1
  /\ Len(callArgs.items[2]) = 1
  /\ result.content[1].text =
       callArgs.items[1] \o "\n" \o TruncationMarker

StartsWith(s, prefix) == Len(s) >= Len(prefix) /\ SubSeq(s, 1, Len(prefix)) = prefix
EndsWith(s, suffix) ==
  Len(s) >= Len(suffix) /\ SubSeq(s, Len(s) - Len(suffix) + 1, Len(s)) = suffix
Contains(s, part) ==
  \E i \in 1..(Len(s) - Len(part) + 1) : SubSeq(s, i, i + Len(part) - 1) = part

\* the lines of the log that start with a prefix
LinesStarting(prefix) == {i \in 1..Len(stderr) : StartsWith(stderr[i], Units(prefix))}

HeadlessLines == LinesStarting("Playwright MCP Server starting in headless mode")
ProxyLines == LinesStarting("Playwright MCP Server starting with proxy: ")

\* what the inputs enable
HeadlessEnabled ==
  HeadlessFlagGiven \/ (HeadlessEnvGiven /\ env["PLAYWRIGHT_HEADLESS"] = "true")
ProxyEnabled == ProxyFlagUsable \/ ProxyEnvUsable
\* the value the proxy was resolved to, by its source
ResolvedProxy ==
  IF ProxyFlagUsable THEN JSONParse(ProxyFlagText).v ELSE JSONParse(ProxyEnvText).v

\* the module body of index.ts has run to its end or has thrown
StartupOver == pc \notin {"off", "start", "configured"}

\* C18 as stated: once the startup logging is over there is one headless
\* line exactly when headless mode is enabled and one proxy line exactly
\* when a proxy is enabled; each names the source the setting was resolved
\* from (the flag when the flag enables it, otherwise the environment
\* variable); the line of a proxy with a username holds its server and
\* " (authenticated)".
C18_StartupLines ==
  StartupOver =>
    /\ Cardinality(HeadlessLines) = (IF HeadlessEnabled THEN 1 ELSE 0)
    /\ \A i \in HeadlessLines :
         IF HeadlessFlagGiven
         THEN EndsWith(stderr[i], Units(" (--headless flag)"))
         ELSE EndsWith(stderr[i], Units(" (PLAYWRIGHT_HEADLESS environment variable)"))
    /\ Cardinality(ProxyLines) = (IF ProxyEnabled THEN 1 ELSE 0)
    /\ \A i \in ProxyLines :
         /\ IF ProxyFlagUsable
            THEN EndsWith(stderr[i], Units(" (--proxy flag)"))
            ELSE EndsWith(stderr[i], Units(" (PLAYWRIGHT_PROXY environment variable)"))
         /\ Truthy(Get(ResolvedProxy, "username")) =>
              /\ Contains(stderr[i], JSToString(Get(ResolvedProxy, "server")))
              /\ Contains(stderr[i], Units(" (authenticated)"))

\* C19: a resolved global proxy that is in use is an object with a string
\* server property.
C19_ProxyHasServer ==
  (Configured /\ Truthy(config.GLOBAL_PROXY_CONFIG)) =>
    /\ config.GLOBAL_PROXY_CONFIG.t = "object"
    /\ HasOwn(config.GLOBAL_PROXY_CONFIG, "server")
    /\ Get(config.GLOBAL_PROXY_CONFIG, "server").t = "string"

\* C21: truncating again what truncateText returned, with the same maximum
\* length (absent, 0, negative, any other), gives the same text, and a
\* response built from what truncateText returned carries that text as it
\* is: not shortened, no second marker.
C21_LayeredTruncation ==
  [][ (tpc = "done" /\ op = "truncateText") =>
        /\ tpc' = "relayered" => result' = result
        /\ tpc' = "wrapped" =>
             /\ Len(result'.content) = 1
             /\ result'.content[1].text = result ]_vars

\* C22: a process that exited after runServer() rejected (the fatal error is
\* in the log) exited with status 1, before or after the handlers were
\* registered, and the shutdown handler of the exit event ran at most once.
C22_FatalExitStatus ==
  (pc = "exited" /\ CountLines(stderr, FatalErrorLine) > 0) =>
    /\ exitCode = << 1 >>
    /\ CountLines(stdout, ShutdownLine) <= 1

====
